---- MODULE Spec2Model ----
(***************************************************************************)
(* Model of ts_hash: a hash map with separate chaining, one mutex per      *)
(* bucket, a global lock every access passes through, a counter of the     *)
(* threads inside bucket critical sections, and a rehash that doubles the  *)
(* capacity (src/ts_hashmap.c, src/ts_hashmap.h).                          *)
(*                                                                         *)
(* Each thread runs get/put/del calls; a call is a sequence of steps, one  *)
(* per lock operation or per block of code executed under the same locks.  *)
(* The label of a step is the line of ts_hashmap.c at which it starts.     *)
(***************************************************************************)
EXTENDS Integers, Sequences, FiniteSets, TLC

\* ------------------------------------------------------------------ bounds
NumThreads == 2        \* threads sharing the map
MaxOps == 2            \* calls each thread makes in the concurrent runs
MaxSeqOps == 4         \* calls the single thread makes in the sequential runs
MaxFairOps == 1        \* calls each thread makes in the runs with fairness
MaxKey == 1            \* keys are -1 .. MaxKey
MaxVal == 2            \* values are 1 .. MaxVal
InitCapacity == 2      \* the argument of initmap

\* -------------------------------------------------------- program constants
INT_MAX == 2147483647
MAX_LOAD_FACTOR_NUM == 3
MAX_LOAD_FACTOR_DEN == 4

Threads == 1..NumThreads
Keys == (0 - 1)..MaxKey
Values == 1..MaxVal
NULL == 0
NoThread == 0
MaxEntries == NumThreads * MaxOps + MaxSeqOps
Addr == 1..MaxEntries

VARIABLES
  capacity, size, numOps, numThreads,   \* ts_hashmap_t fields
  table,                                \* bucket index -> head entry or NULL
  heap,                                 \* entry address -> ts_entry_t
  globalLock, bucketLocks, numThreadsLock, sizeLock,  \* owner or NoThread
  pc, op, key, value,                   \* per thread: position, call, arguments
  bucketIdx, bucketLock, temp,          \* per thread: locals
  old_bucket_head,                      \* per thread: local of put (line 116)
  sizeReg,                              \* per thread: map->size as read at line 245
  after,                                \* per thread: where releaseBucketAccess returns to
  loadFactor,                           \* per thread: local of put, <<size, capacity>>
  budget,                               \* per thread: calls still to make
  ref, expect,                          \* reference map and the result it gives
  rehashed, before                      \* rehash has run; contents before it

mapVars == <<capacity, size, numOps, numThreads, table, heap>>
lockVars == <<globalLock, bucketLocks, numThreadsLock, sizeLock>>
threadVars == <<pc, op, key, value, bucketIdx, bucketLock, temp, old_bucket_head, sizeReg,
               after, loadFactor, budget>>
ghostVars == <<ref, expect, rehashed, before>>
vars == <<mapVars, lockVars, threadVars, ghostVars>>

\* ts_entry_t: key, value, next; alloc tells malloc'ed-and-not-freed memory.
Blank == [key |-> 0, value |-> 0, next |-> NULL, alloc |-> FALSE]

\* Mutant of Hash: the key is reduced modulo capacity - 1.
HashShort(k, c) ==
  IF k >= 0 THEN k % (c - 1)
  ELSE ((((65536 % (c - 1)) * (65536 % (c - 1))) % (c - 1)) + (k % (c - 1))) % (c - 1)

\* ((unsigned int) key) % capacity. A negative int converts to key + 2^32;
\* 2^32 mod c is computed as (2^16 mod c)^2 mod c to stay within 32 bits.
Hash(k, c) ==
  IF k >= 0 THEN k % c
  ELSE ((((65536 % c) * (65536 % c)) % c) + (k % c)) % c

\* malloc(sizeof(ts_entry_t)): the lowest address not in use.
Malloc(h) == CHOOSE a \in Addr : ~h[a].alloc /\ \A b \in Addr : ~h[b].alloc => a <= b

\* The chain from entry e as the sequence of addresses, head first.
RECURSIVE Chain(_, _)
Chain(h, e) == IF e = NULL THEN <<>> ELSE <<e>> \o Chain(h, h[e].next)

\* Mutant of Scan: the loop gives up after the head of the chain.
ScanHeadOnly(h, e, k) ==
  IF e = NULL THEN NULL
  ELSE IF ~h[e].alloc \/ h[e].key = k THEN e
  ELSE NULL

\* The loop of get and put (lines 76-85, 104-114): the first entry of the
\* chain with the key, or NULL. Stops at an entry whose memory was freed.
RECURSIVE Scan(_, _, _)
Scan(h, e, k) ==
  IF e = NULL THEN NULL
  ELSE IF ~h[e].alloc \/ h[e].key = k THEN e
  ELSE Scan(h, h[e].next, k)

\* Mutant of ScanPrev: the loop of del is never entered.
ScanPrevNone(h, prev, k) == NULL

\* The loop of del (lines 167-185): the entry before the first one with the
\* key, starting at prev whose key is known to differ; NULL if none.
RECURSIVE ScanPrev(_, _, _)
ScanPrev(h, prev, k) ==
  IF h[prev].next = NULL THEN NULL
  ELSE IF h[h[prev].next].key = k THEN prev
  ELSE ScanPrev(h, h[prev].next, k)

\* initmap(capacity)
Init0 ==
  /\ capacity = InitCapacity
  /\ size = 0
  /\ numOps = 0
  /\ numThreads = 0
  /\ table = [i \in 0..(InitCapacity - 1) |-> NULL]
  /\ heap = [a \in Addr |-> Blank]
  /\ globalLock = NoThread
  /\ bucketLocks = [i \in 0..(InitCapacity - 1) |-> NoThread]
  /\ numThreadsLock = NoThread
  /\ sizeLock = NoThread
  /\ pc = [t \in Threads |-> "idle"]
  /\ op = [t \in Threads |-> "none"]
  /\ key = [t \in Threads |-> 0]
  /\ value = [t \in Threads |-> 0]
  /\ bucketIdx = [t \in Threads |-> 0]
  /\ bucketLock = [t \in Threads |-> 0]
  /\ temp = [t \in Threads |-> 0]
  /\ old_bucket_head = [t \in Threads |-> NULL]
  /\ sizeReg = [t \in Threads |-> 0]
  /\ after = [t \in Threads |-> "ret"]
  /\ loadFactor = [t \in Threads |-> <<0, 1>>]
  /\ ref = [k \in Keys |-> INT_MAX]
  /\ expect = [t \in Threads |-> 0]
  /\ rehashed = FALSE
  /\ before = {}

\* Several threads share the map.
Init == Init0 /\ budget = [t \in Threads |-> MaxOps]

\* One thread uses the map.
InitSeq == Init0 /\ budget = [t \in Threads |-> IF t = 1 THEN MaxSeqOps ELSE 0]

\* Every thread makes up to MaxFairOps calls.
InitFair == Init0 /\ budget = [t \in Threads |-> MaxFairOps]

\* ------------------------------------------------------------ the calls
\* A thread calls get(map, k): line 71.
CallGet(t) ==
  /\ pc[t] = "idle" /\ budget[t] > 0
  /\ \E k \in Keys :
       /\ op' = [op EXCEPT ![t] = "get"]
       /\ key' = [key EXCEPT ![t] = k]
       /\ bucketIdx' = [bucketIdx EXCEPT ![t] = Hash(k, capacity)]
  /\ pc' = [pc EXCEPT ![t] = "a42"]
  /\ UNCHANGED <<mapVars, lockVars, value, bucketLock, temp, old_bucket_head, sizeReg, after, loadFactor, budget, ghostVars>>

\* A thread calls put(map, k, v): line 99. (A client that has called rehash
\* itself only reads afterwards: see NextRehash.)
CallPut(t) ==
  /\ pc[t] = "idle" /\ budget[t] > 0 /\ ~rehashed
  /\ \E k \in Keys, v \in Values :
       /\ op' = [op EXCEPT ![t] = "put"]
       /\ key' = [key EXCEPT ![t] = k]
       /\ value' = [value EXCEPT ![t] = v]
       /\ bucketIdx' = [bucketIdx EXCEPT ![t] = Hash(k, capacity)]
  /\ pc' = [pc EXCEPT ![t] = "a42"]
  /\ UNCHANGED <<mapVars, lockVars, bucketLock, temp, old_bucket_head, sizeReg, after, loadFactor, budget, ghostVars>>

\* A thread calls del(map, k): line 146.
CallDel(t) ==
  /\ pc[t] = "idle" /\ budget[t] > 0 /\ ~rehashed
  /\ \E k \in Keys :
       /\ op' = [op EXCEPT ![t] = "del"]
       /\ key' = [key EXCEPT ![t] = k]
       /\ bucketIdx' = [bucketIdx EXCEPT ![t] = Hash(k, capacity)]
  /\ pc' = [pc EXCEPT ![t] = "a42"]
  /\ UNCHANGED <<mapVars, lockVars, value, bucketLock, temp, old_bucket_head, sizeReg, after, loadFactor, budget, ghostVars>>

\* ------------------------------------------------- acquireBucketAccess
\* line 42: pthread_mutex_lock(map->globalLock)
AcqGlobal(t) ==
  /\ pc[t] = "a42"
  /\ globalLock = NoThread
  /\ globalLock' = t
  /\ pc' = [pc EXCEPT ![t] = "a43"]
  /\ UNCHANGED <<mapVars, bucketLocks, numThreadsLock, sizeLock, op, key, value,
                 bucketIdx, bucketLock, temp, old_bucket_head, sizeReg, after, loadFactor, budget, ghostVars>>

\* Mutant of BucketLockFree: the bucket lock never makes a thread wait.
NeverHeld(b) == TRUE

\* The guard of pthread_mutex_lock(bucketLock) at line 45.
BucketLockFree(b) == bucketLocks[b] = NoThread

\* Mutant of AcqBucket: line 45 is missing, the bucket lock is not taken.
AcqBucketNoWait(t) ==
  /\ pc[t] = "a43"
  /\ bucketLock' = [bucketLock EXCEPT ![t] = bucketIdx[t]]
  /\ numOps' = numOps + 1
  /\ pc' = [pc EXCEPT ![t] = "a48"]
  /\ UNCHANGED <<capacity, size, numThreads, table, heap, lockVars, op, key, value,
                 bucketIdx, temp, old_bucket_head, sizeReg, after, loadFactor, budget,
                 ghostVars>>

\* Mutant of AcqBucket: the global lock is unlocked as soon as the bucket lock
\* is taken, before the thread is counted in numThreads.
AcqBucketEarlyUnlock(t) ==
  /\ pc[t] = "a43"
  /\ BucketLockFree(bucketIdx[t])
  /\ bucketLock' = [bucketLock EXCEPT ![t] = bucketIdx[t]]
  /\ bucketLocks' = [bucketLocks EXCEPT ![bucketIdx[t]] = t]
  /\ numOps' = numOps + 1
  /\ globalLock' = NoThread
  /\ pc' = [pc EXCEPT ![t] = "a48"]
  /\ UNCHANGED <<capacity, size, numThreads, table, heap, numThreadsLock,
                 sizeLock, op, key, value, bucketIdx, temp, old_bucket_head, sizeReg,
                 after, loadFactor, budget, ghostVars>>

\* lines 43-46: read the bucket's lock, lock it, count the operation
AcqBucket(t) ==
  /\ pc[t] = "a43"
  /\ BucketLockFree(bucketIdx[t])
  /\ bucketLock' = [bucketLock EXCEPT ![t] = bucketIdx[t]]
  /\ bucketLocks' = [bucketLocks EXCEPT ![bucketIdx[t]] = t]
  /\ numOps' = numOps + 1
  /\ pc' = [pc EXCEPT ![t] = "a48"]
  /\ UNCHANGED <<capacity, size, numThreads, table, heap, globalLock, numThreadsLock,
                 sizeLock, op, key, value, bucketIdx, temp, old_bucket_head, sizeReg, after, loadFactor, budget, ghostVars>>

\* line 48: pthread_mutex_lock(map->numThreadsLock)
AcqCount(t) ==
  /\ pc[t] = "a48"
  /\ numThreadsLock = NoThread
  /\ numThreadsLock' = t
  /\ pc' = [pc EXCEPT ![t] = "a49"]
  /\ UNCHANGED <<mapVars, globalLock, bucketLocks, sizeLock, op, key, value,
                 bucketIdx, bucketLock, temp, old_bucket_head, sizeReg, after, loadFactor, budget, ghostVars>>

\* lines 49-50: numThreads++, unlock numThreadsLock
AcqEnter(t) ==
  /\ pc[t] = "a49"
  /\ numThreads' = numThreads + 1
  /\ numThreadsLock' = NoThread
  /\ pc' = [pc EXCEPT ![t] = "a52"]
  /\ UNCHANGED <<capacity, size, numOps, table, heap, globalLock, bucketLocks,
                 sizeLock, op, key, value, bucketIdx, bucketLock, temp, old_bucket_head, sizeReg, after, loadFactor,
                 budget, ghostVars>>

\* Mutant of AcqDone: line 52 is missing, the global lock stays locked.
AcqDoneKeepGlobal(t) ==
  /\ pc[t] = "a52"
  /\ pc' = [pc EXCEPT ![t] = IF op[t] = "get" THEN "g74"
                             ELSE IF op[t] = "put" THEN "p102" ELSE "d149"]
  /\ UNCHANGED <<mapVars, lockVars, op, key, value, bucketIdx, bucketLock, temp,
                 old_bucket_head, sizeReg, after, loadFactor, budget, ghostVars>>

\* line 52: unlock the global lock; the caller goes on with its chain
AcqDone(t) ==
  /\ pc[t] = "a52"
  /\ globalLock' = NoThread
  /\ pc' = [pc EXCEPT ![t] = IF op[t] = "get" THEN "g74"
                             ELSE IF op[t] = "put" THEN "p102" ELSE "d149"]
  /\ UNCHANGED <<mapVars, bucketLocks, numThreadsLock, sizeLock, op, key, value,
                 bucketIdx, bucketLock, temp, old_bucket_head, sizeReg, after, loadFactor, budget, ghostVars>>

\* ------------------------------------------------- releaseBucketAccess
\* Mutant of RelBucket: releaseBucketAccess passes through the global lock,
\* as acquireBucketAccess does, before it unlocks the bucket.
RelBucketUnderGlobal(t) ==
  /\ pc[t] = "r56"
  /\ globalLock = NoThread
  /\ bucketLocks' = [bucketLocks EXCEPT ![bucketIdx[t]] = NoThread]
  /\ pc' = [pc EXCEPT ![t] = "r59"]
  /\ UNCHANGED <<mapVars, globalLock, numThreadsLock, sizeLock, op, key, value,
                 bucketIdx, bucketLock, temp, old_bucket_head, sizeReg, after,
                 loadFactor, budget, ghostVars>>

\* Mutant of RelBucket: line 58 is missing, the bucket stays locked.
RelBucketKeep(t) ==
  /\ pc[t] = "r56"
  /\ pc' = [pc EXCEPT ![t] = "r59"]
  /\ UNCHANGED <<mapVars, lockVars, op, key, value, bucketIdx, bucketLock, temp,
                 old_bucket_head, sizeReg, after, loadFactor, budget, ghostVars>>

\* lines 56-58: unlock the bucket's lock
RelBucket(t) ==
  /\ pc[t] = "r56"
  /\ bucketLocks' = [bucketLocks EXCEPT ![bucketIdx[t]] = NoThread]
  /\ pc' = [pc EXCEPT ![t] = "r59"]
  /\ UNCHANGED <<mapVars, globalLock, numThreadsLock, sizeLock, op, key, value,
                 bucketIdx, bucketLock, temp, old_bucket_head, sizeReg, after, loadFactor, budget, ghostVars>>

\* line 59: pthread_mutex_lock(map->numThreadsLock)
RelCount(t) ==
  /\ pc[t] = "r59"
  /\ numThreadsLock = NoThread
  /\ numThreadsLock' = t
  /\ pc' = [pc EXCEPT ![t] = "r60"]
  /\ UNCHANGED <<mapVars, globalLock, bucketLocks, sizeLock, op, key, value,
                 bucketIdx, bucketLock, temp, old_bucket_head, sizeReg, after, loadFactor, budget, ghostVars>>

\* Mutant of RelLeave: line 61 is missing, numThreadsLock stays locked.
RelLeaveKeepLock(t) ==
  /\ pc[t] = "r60"
  /\ numThreads' = numThreads - 1
  /\ pc' = [pc EXCEPT ![t] = after[t]]
  /\ UNCHANGED <<capacity, size, numOps, table, heap, lockVars, op, key, value,
                 bucketIdx, bucketLock, temp, old_bucket_head, sizeReg, after,
                 loadFactor, budget, ghostVars>>

\* lines 60-61: numThreads--, unlock numThreadsLock; back in the caller, which
\* returns (get, put of a present key, del of an absent key) or changes size.
RelLeave(t) ==
  /\ pc[t] = "r60"
  /\ numThreads' = numThreads - 1
  /\ numThreadsLock' = NoThread
  /\ pc' = [pc EXCEPT ![t] = after[t]]
  /\ UNCHANGED <<capacity, size, numOps, table, heap, globalLock, bucketLocks,
                 sizeLock, op, key, value, bucketIdx, bucketLock, temp, old_bucket_head, sizeReg, after, loadFactor,
                 budget, ghostVars>>

\* ------------------------------------------------------------------ get
\* What get returns after its loop stopped at entry e (lines 78-81, 88).
\* Reading an entry whose memory was freed is undefined: any value may come back.
GetResults(h, e) ==
  IF e = NULL THEN {INT_MAX}
  ELSE IF h[e].alloc THEN {h[e].value}
  ELSE Values \cup {INT_MAX}

\* Mutant of GetScan: the entry found is also written, as put does at line 108.
GetScanStore(t) ==
  /\ pc[t] = "g74"
  /\ LET e == Scan(heap, table[bucketIdx[t]], key[t]) IN
       /\ \E r \in GetResults(heap, e) : temp' = [temp EXCEPT ![t] = r]
       /\ heap' = IF e = NULL THEN heap ELSE [heap EXCEPT ![e].value = value[t]]
  /\ after' = [after EXCEPT ![t] = "ret"]
  /\ expect' = [expect EXCEPT ![t] = ref[key[t]]]
  /\ pc' = [pc EXCEPT ![t] = "r56"]
  /\ UNCHANGED <<capacity, size, numOps, numThreads, table, lockVars, op, key, value,
                 bucketIdx, bucketLock, old_bucket_head, sizeReg, loadFactor, budget,
                 ref, rehashed, before>>

\* lines 74-88: walk the chain of bucketIdx, keep the value found or INT_MAX
GetScan(t) ==
  /\ pc[t] = "g74"
  /\ \E r \in GetResults(heap, Scan(heap, table[bucketIdx[t]], key[t])) :
       temp' = [temp EXCEPT ![t] = r]
  /\ after' = [after EXCEPT ![t] = "ret"]
  /\ expect' = [expect EXCEPT ![t] = ref[key[t]]]
  /\ pc' = [pc EXCEPT ![t] = "r56"]
  /\ UNCHANGED <<mapVars, lockVars, op, key, value, bucketIdx, bucketLock,
                 old_bucket_head, sizeReg, loadFactor, budget, ref, rehashed, before>>

\* ------------------------------------------------------------------ put
\* lines 102-116: walk the chain; a present key has its value overwritten,
\* for an absent one the head of the chain is read
PutScan(t) ==
  /\ pc[t] = "p102"
  /\ LET e == Scan(heap, table[bucketIdx[t]], key[t]) IN
       IF e # NULL
       THEN /\ temp' = [temp EXCEPT ![t] = heap[e].value]
            /\ heap' = [heap EXCEPT ![e].value = value[t]]
            /\ after' = [after EXCEPT ![t] = "ret"]
            /\ expect' = [expect EXCEPT ![t] = ref[key[t]]]
            /\ ref' = [ref EXCEPT ![key[t]] = value[t]]
            /\ pc' = [pc EXCEPT ![t] = "r56"]
            /\ UNCHANGED old_bucket_head
       ELSE /\ old_bucket_head' = [old_bucket_head EXCEPT ![t] = table[bucketIdx[t]]]
            /\ pc' = [pc EXCEPT ![t] = "p118"]
            /\ UNCHANGED <<temp, heap, after, expect, ref>>
  /\ UNCHANGED <<capacity, size, numOps, numThreads, table, lockVars, op, key, value,
                 bucketIdx, bucketLock, sizeReg, loadFactor, budget, rehashed, before>>

\* lines 118-125: a new entry, linked to the head read, becomes the head
PutInsert(t) ==
  /\ pc[t] = "p118"
  /\ LET new_bucket_head == Malloc(heap)
     IN /\ heap' = [heap EXCEPT ![new_bucket_head] =
                      [key |-> key[t], value |-> value[t],
                       next |-> old_bucket_head[t], alloc |-> TRUE]]
        /\ table' = [table EXCEPT ![bucketIdx[t]] = new_bucket_head]
  /\ temp' = [temp EXCEPT ![t] = INT_MAX]
  /\ after' = [after EXCEPT ![t] = "s244"]
  /\ expect' = [expect EXCEPT ![t] = ref[key[t]]]
  /\ ref' = [ref EXCEPT ![key[t]] = value[t]]
  /\ pc' = [pc EXCEPT ![t] = "r56"]
  /\ UNCHANGED <<capacity, size, numOps, numThreads, lockVars, op, key, value,
                 bucketIdx, bucketLock, old_bucket_head, sizeReg, loadFactor, budget,
                 rehashed, before>>

\* ------------------------------------------------------------------ del
\* lines 149-188: unlink and free the entry with the key, if there is one.
\* The head is read at ((unsigned int) key) % capacity, computed again.
DelScan(t) ==
  /\ pc[t] = "d149"
  /\ LET idx == Hash(key[t], capacity)
         currEntry == table[idx]
     IN IF currEntry = NULL
        THEN /\ temp' = [temp EXCEPT ![t] = INT_MAX]
             /\ after' = [after EXCEPT ![t] = "ret"]
             /\ UNCHANGED <<table, heap>>
        ELSE IF heap[currEntry].key = key[t]
        THEN /\ table' = [table EXCEPT ![idx] = heap[currEntry].next]
             /\ temp' = [temp EXCEPT ![t] = heap[currEntry].value]
             /\ heap' = [heap EXCEPT ![currEntry] = Blank]
             /\ after' = [after EXCEPT ![t] = "s244"]
        ELSE LET prevEntry == ScanPrev(heap, currEntry, key[t]) IN
             IF prevEntry = NULL
             THEN /\ temp' = [temp EXCEPT ![t] = INT_MAX]
                  /\ after' = [after EXCEPT ![t] = "ret"]
                  /\ UNCHANGED <<table, heap>>
             ELSE LET found == heap[prevEntry].next IN
                  /\ temp' = [temp EXCEPT ![t] = heap[found].value]
                  /\ heap' = [heap EXCEPT ![prevEntry].next = heap[found].next,
                                          ![found] = Blank]
                  /\ after' = [after EXCEPT ![t] = "s244"]
                  /\ UNCHANGED table
  /\ expect' = [expect EXCEPT ![t] = ref[key[t]]]
  /\ ref' = [ref EXCEPT ![key[t]] = INT_MAX]
  /\ pc' = [pc EXCEPT ![t] = "r56"]
  /\ UNCHANGED <<capacity, size, numOps, numThreads, lockVars, op, key, value,
                 bucketIdx, bucketLock, old_bucket_head, sizeReg, loadFactor, budget,
                 rehashed, before>>

\* --------------------------------------------------- atomic_mutate_size
\* Mutant of MutateSize: the two branches of line 245 are swapped.
MutateSizeSwapped(s, isInc) == IF isInc THEN s - 1 ELSE s + 1

\* Mutant of MutateSize: isInc is ignored.
MutateSizeUp(s, isInc) == s + 1

\* line 245: the new size
MutateSize(s, isInc) == IF isInc THEN s + 1 ELSE s - 1

\* Mutant of SizeLock: size is changed without sizeLock.
SizeLockSkip(t) ==
  /\ pc[t] = "s244"
  /\ pc' = [pc EXCEPT ![t] = "s245"]
  /\ UNCHANGED <<mapVars, lockVars, op, key, value, bucketIdx, bucketLock, temp,
                 old_bucket_head, sizeReg, after, loadFactor, budget, ghostVars>>

\* line 244: pthread_mutex_lock(map->sizeLock)
SizeLock(t) ==
  /\ pc[t] = "s244"
  /\ sizeLock = NoThread
  /\ sizeLock' = t
  /\ pc' = [pc EXCEPT ![t] = "s245"]
  /\ UNCHANGED <<mapVars, globalLock, bucketLocks, numThreadsLock, op, key, value,
                 bucketIdx, bucketLock, temp, old_bucket_head, sizeReg, after, loadFactor, budget, ghostVars>>

\* line 245, right-hand side: read map->size
SizeRead(t) ==
  /\ pc[t] = "s245"
  /\ sizeReg' = [sizeReg EXCEPT ![t] = size]
  /\ pc' = [pc EXCEPT ![t] = "s245w"]
  /\ UNCHANGED <<mapVars, lockVars, op, key, value, bucketIdx, bucketLock, temp,
                 old_bucket_head, after, loadFactor, budget, ghostVars>>

\* lines 245-246: write map->size, unlock sizeLock; put (line 128, isInc = 1)
\* goes on to its load factor check, del (lines 163 and 179, isInc = 0) returns
SizeMutate(t) ==
  /\ pc[t] = "s245w"
  /\ size' = MutateSize(sizeReg[t], op[t] = "put")
  /\ sizeLock' = NoThread
  /\ sizeReg' = [sizeReg EXCEPT ![t] = 0]
  /\ pc' = [pc EXCEPT ![t] = IF op[t] = "put" THEN "p130" ELSE "ret"]
  /\ UNCHANGED <<capacity, numOps, numThreads, table, heap, globalLock, bucketLocks,
                 numThreadsLock, op, key, value, bucketIdx, bucketLock, temp,
                 old_bucket_head, after, loadFactor, budget, ghostVars>>

\* -------------------------------------------- put's load factor check
\* Mutant of CheckLock: line 130 is missing, put goes to its load factor
\* check without the global lock.
CheckLockNoWait(t) ==
  /\ pc[t] = "p130"
  /\ pc' = [pc EXCEPT ![t] = "p131"]
  /\ UNCHANGED <<mapVars, lockVars, op, key, value, bucketIdx, bucketLock, temp,
                 old_bucket_head, sizeReg, after, loadFactor, budget, ghostVars>>

\* line 130: pthread_mutex_lock(map->globalLock)
CheckLock(t) ==
  /\ pc[t] = "p130"
  /\ globalLock = NoThread
  /\ globalLock' = t
  /\ pc' = [pc EXCEPT ![t] = "p131"]
  /\ UNCHANGED <<mapVars, bucketLocks, numThreadsLock, sizeLock, op, key, value,
                 bucketIdx, bucketLock, temp, old_bucket_head, sizeReg, after, loadFactor, budget, ghostVars>>

\* loadFactor >= MAX_LOAD_FACTOR, for loadFactor = s / c with c > 0
LoadFactorHigh(lf) == lf[1] * MAX_LOAD_FACTOR_DEN >= MAX_LOAD_FACTOR_NUM * lf[2]

\* lines 131-134: compute the load factor; the body of the if is empty (the
\* call of rehash is commented out)
CheckLoad(t) ==
  /\ pc[t] = "p131"
  /\ loadFactor' = [loadFactor EXCEPT ![t] = <<size, capacity>>]
  /\ pc' = [pc EXCEPT ![t] = "p135"]
  /\ UNCHANGED <<mapVars, lockVars, op, key, value, bucketIdx, bucketLock, temp,
                 old_bucket_head, sizeReg, after, budget, ghostVars>>

\* line 135: pthread_mutex_unlock(map->globalLock)
CheckUnlock(t) ==
  /\ pc[t] = "p135"
  /\ globalLock' = NoThread
  /\ pc' = [pc EXCEPT ![t] = "ret"]
  /\ UNCHANGED <<mapVars, bucketLocks, numThreadsLock, sizeLock, op, key, value,
                 bucketIdx, bucketLock, temp, old_bucket_head, sizeReg, after, loadFactor, budget, ghostVars>>

\* The call returns temp (lines 81, 88, 110, 136, 153, 164, 180, 188).
Return(t) ==
  /\ pc[t] = "ret"
  /\ pc' = [pc EXCEPT ![t] = "idle"]
  /\ budget' = [budget EXCEPT ![t] = budget[t] - 1]
  /\ op' = [op EXCEPT ![t] = "none"]
  /\ key' = [key EXCEPT ![t] = 0]
  /\ value' = [value EXCEPT ![t] = 0]
  /\ bucketIdx' = [bucketIdx EXCEPT ![t] = 0]
  /\ bucketLock' = [bucketLock EXCEPT ![t] = 0]
  /\ temp' = [temp EXCEPT ![t] = 0]
  /\ old_bucket_head' = [old_bucket_head EXCEPT ![t] = NULL]
  /\ after' = [after EXCEPT ![t] = "ret"]
  /\ loadFactor' = [loadFactor EXCEPT ![t] = <<0, 1>>]
  /\ expect' = [expect EXCEPT ![t] = 0]
  /\ UNCHANGED <<mapVars, lockVars, sizeReg, ref, rehashed, before>>

\* One step of thread t in get, put or del.
Step(t) ==
  \/ CallGet(t) \/ CallPut(t) \/ CallDel(t)
  \/ AcqGlobal(t) \/ AcqBucket(t) \/ AcqCount(t) \/ AcqEnter(t) \/ AcqDone(t)
  \/ GetScan(t) \/ PutScan(t) \/ PutInsert(t) \/ DelScan(t)
  \/ RelBucket(t) \/ RelCount(t) \/ RelLeave(t)
  \/ SizeLock(t) \/ SizeRead(t) \/ SizeMutate(t)
  \/ CheckLock(t) \/ CheckLoad(t) \/ CheckUnlock(t)
  \/ Return(t)

Next == \E t \in Threads : Step(t)

\* --------------------------------------------------------------- rehash
\* lines 269-279: move the chain from curr into newTable, entry by entry
RECURSIVE RelinkChain(_, _, _, _)
RelinkChain(h, newTable, curr, newCapacity) ==
  IF curr = NULL THEN [heap |-> h, table |-> newTable]
  ELSE LET nextCurr == h[curr].next
           newBucketIdx == Hash(h[curr].key, newCapacity)
       IN RelinkChain([h EXCEPT ![curr].next = newTable[newBucketIdx]],
                      [newTable EXCEPT ![newBucketIdx] = curr],
                      nextCurr, newCapacity)

\* lines 267-280: the loop over the buckets i .. cap - 1 of the old table
RECURSIVE RelinkFrom(_, _, _, _, _, _)
RelinkFrom(h, newTable, i, oldTable, cap, newCapacity) ==
  IF i >= cap THEN [heap |-> h, table |-> newTable]
  ELSE LET r == RelinkChain(h, newTable, oldTable[i], newCapacity)
       IN RelinkFrom(r.heap, r.table, i + 1, oldTable, cap, newCapacity)

\* lines 282-284: free((map->table)[i]) for every bucket of the old table;
\* the memory keeps what it held, free(NULL) does nothing
FreeHeads(h, oldTable, cap) ==
  [a \in Addr |-> IF \E i \in 0..(cap - 1) : oldTable[i] = a
                  THEN [h[a] EXCEPT !.alloc = FALSE]
                  ELSE h[a]]

\* The entries linked in the table: <<address, key, value>> of each.
Linked == UNION {{Chain(heap, table[i])[j] : j \in 1..Len(Chain(heap, table[i]))} :
                 i \in 0..(capacity - 1)}
Entries == {<<a, heap[a].key, heap[a].value>> : a \in Linked}

\* A client calls rehash(map), with no call in progress.
CallRehash(t) ==
  /\ pc[t] = "idle" /\ budget[t] > 0 /\ ~rehashed
  /\ \A u \in Threads : pc[u] = "idle"
  /\ before' = Entries
  /\ pc' = [pc EXCEPT ![t] = "h256"]
  /\ UNCHANGED <<mapVars, lockVars, op, key, value, bucketIdx, bucketLock, temp,
                 old_bucket_head, sizeReg, after, loadFactor, budget, ref, expect, rehashed>>

\* line 256: while (map->numThreads);
RehashSpin(t) ==
  /\ pc[t] = "h256"
  /\ numThreads = 0
  /\ pc' = [pc EXCEPT ![t] = "h258"]
  /\ UNCHANGED <<mapVars, lockVars, op, key, value, bucketIdx, bucketLock, temp,
                 old_bucket_head, sizeReg, after, loadFactor, budget, ghostVars>>

\* lines 258-292: new table and locks of twice the capacity, every entry moved,
\* the old heads, locks and arrays freed, the map's fields replaced
RehashRun(t) ==
  /\ pc[t] = "h258"
  /\ LET newCapacity == capacity * 2
         newTable == [i \in 0..(newCapacity - 1) |-> NULL]
         newBucketLocks == [i \in 0..(newCapacity - 1) |-> NoThread]
         moved == RelinkFrom(heap, newTable, 0, table, capacity, newCapacity)
     IN /\ heap' = FreeHeads(moved.heap, table, capacity)
        /\ capacity' = newCapacity
        /\ bucketLocks' = newBucketLocks
        /\ table' = moved.table
  /\ rehashed' = TRUE
  /\ pc' = [pc EXCEPT ![t] = "idle"]
  /\ UNCHANGED <<size, numOps, numThreads, globalLock, numThreadsLock, sizeLock, op, key,
                 value, bucketIdx, bucketLock, temp, old_bucket_head, sizeReg, after,
                 loadFactor, budget, ref, expect, before>>

\* One step of thread t in rehash.
RehashStep(t) == CallRehash(t) \/ RehashSpin(t) \/ RehashRun(t)

\* The map's calls, and rehash called on its own: rehash has no caller in the
\* source (line 133 is a comment). After it the client only reads, with get.
NextRehash == \E t \in Threads : Step(t) \/ RehashStep(t)

Spec == Init /\ [][Next]_vars

SpecSeq == InitSeq /\ [][Next]_vars

SpecRehash == InitSeq /\ [][NextRehash]_vars

\* Fair scheduling and fair hand-off of the mutexes: a thread that can take a
\* step again and again, be it only each time the mutex it waits for at
\* pthread_mutex_lock (lines 42, 45, 48, 59, 130, 244) is unlocked, takes one.
Fairness == \A t \in Threads : SF_vars(Step(t))

SpecFair == InitFair /\ [][Next]_vars /\ Fairness

\* ------------------------------------------------- what the map holds
Buckets == 0..(capacity - 1)

\* The entries of all chains, bucket after bucket, head first.
RECURSIVE ChainsFrom(_)
ChainsFrom(i) == IF i >= capacity THEN <<>> ELSE Chain(heap, table[i]) \o ChainsFrom(i + 1)
AllChains == ChainsFrom(0)

\* The number of entries linked in all chains.
EntryCount == Len(AllChains)

\* The key-value pairs of the map and of the reference map.
Contents == {<<e[2], e[3]>> : e \in Entries}
RefContents == {<<k, ref[k]>> : k \in {j \in Keys : ref[j] # INT_MAX}}

\* What get(k) returns in the current state, were it to run alone.
GetNow(k) == GetResults(heap, Scan(heap, table[Hash(k, capacity)], k))

\* Thread t is between the return of acquireBucketAccess and the unlock of
\* releaseBucketAccess.
Between(t) == pc[t] \in {"g74", "p102", "p118", "d149", "r56"}

\* Thread t has linked (put) or unlinked (del) an entry and not yet written size.
Counting(t) == after[t] = "s244" /\ pc[t] \in {"r56", "r59", "r60", "s244", "s245", "s245w"}
PendingInc == Cardinality({t \in Threads : Counting(t) /\ op[t] = "put"})
PendingDec == Cardinality({t \in Threads : Counting(t) /\ op[t] = "del"})

\* ------------------------------------------------------------- claims
\* C1: used by one thread, every call returns what a reference map with
\* last-write-wins returns, and after each call the key-value pairs and the
\* size are those of the reference map.
SeqMatchesReference ==
  /\ \A t \in Threads : pc[t] = "ret" => temp[t] = expect[t]
  /\ (\A t \in Threads : pc[t] \in {"idle", "ret"}) =>
       /\ Contents = RefContents
       /\ size = Cardinality(RefContents)
       /\ EntryCount = size

\* C1 witness: the fourth call, a del, returns a value that an earlier put
\* had overwritten, and one other key stays.
SeqWitness ==
  pc[1] = "ret" /\ op[1] = "del" /\ temp[1] = 2 /\ size = 1 /\ budget[1] = 1

\* C2: with several threads, every call returns what the serial execution in
\* the order of the bucket critical sections returns, and when all calls have
\* returned the key-value pairs are those of that serial execution.
Linearizable ==
  /\ \A t \in Threads : pc[t] \in {"r56", "r59", "r60", "ret"} => temp[t] = expect[t]
  /\ (\A t \in Threads : pc[t] = "idle" /\ budget[t] = 0) => Contents = RefContents

\* C2 witness: two concurrent puts of one key; the first finds the key new,
\* the second returns the first one's value.
LinWitness ==
  /\ pc[1] = "ret" /\ pc[2] = "ret" /\ op[1] = "put" /\ op[2] = "put"
  /\ budget[1] = MaxOps /\ budget[2] = MaxOps
  /\ key[1] = key[2] /\ value[1] # value[2]
  /\ temp[1] = INT_MAX /\ temp[2] = value[1]

\* C3: when every thread's first call is a put and the keys are pairwise
\* distinct, then once all these calls are about to return size is the number
\* of threads and get of each key gives the value put.
FirstPutsDone ==
  /\ \A t \in Threads : pc[t] = "ret" /\ op[t] = "put" /\ budget[t] = MaxOps
  /\ \A t, u \in Threads : t # u => key[t] # key[u]
NoLostUpdates ==
  FirstPutsDone =>
    /\ size = NumThreads
    /\ \A t \in Threads : GetNow(key[t]) = {value[t]}

\* C3 witness: the concurrent puts are done and two of the keys share a bucket.
NoLostWitness ==
  /\ FirstPutsDone
  /\ \E t, u \in Threads : t # u /\ Hash(key[t], capacity) = Hash(key[u], capacity)

\* C4: in every reachable state each key has at most one entry in the table.
NoDuplicateKeys ==
  LET all == AllChains
  IN \A i, j \in 1..Len(all) : i # j => heap[all[i]].key # heap[all[j]].key

\* C4 witness: a put found its key in a chain of two entries, behind the
\* head, and overwrote the value instead of adding an entry.
NoDupWitness ==
  \E t \in Threads :
    /\ pc[t] = "r56" /\ op[t] = "put" /\ after[t] = "ret"
    /\ Len(Chain(heap, table[bucketIdx[t]])) = 2
    /\ heap[table[bucketIdx[t]]].key # key[t]

\* C5: a put that linked a new entry and found size / capacity >= 0.75 at its
\* load factor check returns with the capacity doubled.
ResizeOnHighLoad ==
  \A t \in Threads :
    (pc[t] = "ret" /\ op[t] = "put" /\ after[t] = "s244" /\ LoadFactorHigh(loadFactor[t]))
      => capacity = 2 * loadFactor[t][2]

\* C6: after rehash the linked entries are the ones linked before it, with
\* their keys and values, none of them freed, and get returns what it
\* returned before.
RehashPreserves ==
  rehashed =>
    /\ Entries = before
    /\ \A a \in Linked : heap[a].alloc
    /\ \A t \in Threads : pc[t] = "ret" /\ op[t] = "get" => temp[t] = expect[t]

\* C7: used by one thread, from the moment del(k) has gone through the chain
\* get(k) gives INT_MAX; a del of a key that is in no chain returns INT_MAX,
\* leaves table and entries as they are and goes on to return without
\* changing size.
DeleteGetSymmetry ==
  /\ [](\A t \in Threads :
          (op[t] = "del" /\ pc[t] \in {"r56", "r59", "r60", "s244", "s245", "s245w", "ret"})
            => GetNow(key[t]) = {INT_MAX})
  /\ [][\A t \in Threads :
          /\ (pc[t] = "d149" /\ pc'[t] # "d149" /\ GetNow(key[t]) = {INT_MAX})
               => temp'[t] = INT_MAX /\ table' = table /\ heap' = heap
          /\ (op[t] = "del" /\ pc[t] \in {"r56", "r59", "r60", "ret"} /\ temp[t] = INT_MAX)
               => size' = size /\ pc'[t] \notin {"s244", "s245", "s245w"}]_vars

\* C7 witness: a del of an absent key returns INT_MAX from a bucket whose
\* chain is not empty.
DelAbsentWitness ==
  /\ pc[1] = "ret" /\ op[1] = "del" /\ temp[1] = INT_MAX
  /\ table[Hash(key[1], capacity)] # NULL
  /\ size = 2

\* C8 as stated: in every reachable state size is the number of linked entries.
SizeExact == size = EntryCount

\* C8 amended: size is the number of linked entries, less the entries whose
\* put has not yet written size, plus the entries unlinked whose del has not
\* yet written size.
SizeExactUpToPending == size + PendingInc - PendingDec = EntryCount

\* C8 witness: a del has counted down an entry whose put has not yet counted.
SizeLagWitness == size = 0 - 1 /\ EntryCount = 0 /\ PendingInc = 1

\* C9: no two threads are at the same time between acquireBucketAccess and
\* releaseBucketAccess of the same bucket, and a thread there owns the lock.
MutualExclusion ==
  /\ \A t, u \in Threads :
       (t # u /\ Between(t) /\ Between(u)) => bucketIdx[t] # bucketIdx[u]
  /\ \A t \in Threads : Between(t) => bucketLocks[bucketIdx[t]] = t

\* C9 witness: two threads are in the critical sections of two buckets.
MutexWitness == Between(1) /\ Between(2) /\ pc[1] = "p118" /\ pc[2] = "d149"

\* C10: whenever a call is unfinished some thread with an unfinished call can
\* take a step; a thread that waits for the global lock holds no other lock,
\* one that waits for a bucket lock holds the global lock and no counter lock,
\* one that waits for the counter lock in acquireBucketAccess holds both.
NoDeadlock ==
  /\ (\E t \in Threads : pc[t] # "idle") =>
       \E t \in Threads : pc[t] # "idle" /\ ENABLED Step(t)
  /\ \A t \in Threads :
       pc[t] \in {"a42", "p130"} =>
         /\ \A b \in Buckets : bucketLocks[b] # t
         /\ numThreadsLock # t /\ sizeLock # t
  /\ \A t \in Threads :
       pc[t] = "a43" => globalLock = t /\ numThreadsLock # t /\ sizeLock # t
  /\ \A t \in Threads :
       pc[t] = "a48" => globalLock = t /\ bucketLocks[bucketIdx[t]] = t

\* C10 witness: a thread holding the global lock waits for a bucket lock that
\* another thread, inside its critical section, holds.
WaitWitness ==
  /\ pc[2] = "a43" /\ globalLock = 2
  /\ bucketLocks[bucketIdx[2]] = 1 /\ Between(1)

CountOnlyDrains ==
  /\ [][(\E t \in Threads : pc[t] \in {"p131", "p135"} /\ globalLock = t) =>
          numThreads' <= numThreads]_vars
  /\ [][numThreads' > numThreads =>
          \E t \in Threads :
            /\ globalLock = t /\ pc[t] = "a49" /\ pc'[t] # pc[t]
            /\ numThreads' = numThreads + 1]_vars

\* C12 witness: a put holds the global lock at its load factor check while the
\* other thread, counted in numThreads, is about to take itself off.
DrainWitness ==
  pc[1] = "p131" /\ globalLock = 1 /\ pc[2] = "r60" /\ numThreads = 1

\* The remainder of k read as an unsigned 32-bit number, modulo c; for k < 0
\* that number is 2 * INT_MAX + 2 + k.
PlaceOf(k, c) ==
  IF k >= 0 THEN k % c
  ELSE (2 * (INT_MAX % c) + ((k + 2) % c)) % c

\* C13: in every reachable state each linked entry is in one chain only, once,
\* and that chain is the one at index unsigned(key) mod capacity for the
\* capacity of that state; a thread between acquireBucketAccess and
\* releaseBucketAccess works on the bucket at unsigned(key) mod that capacity
\* and holds the lock of that bucket.
Placement ==
  /\ \A i \in Buckets :
       \A j \in 1..Len(Chain(heap, table[i])) :
         PlaceOf(heap[Chain(heap, table[i])[j]].key, capacity) = i
  /\ LET all == AllChains
     IN \A i, j \in 1..Len(all) : i # j => all[i] # all[j]
  /\ \A t \in Threads :
       Between(t) =>
         /\ bucketIdx[t] = PlaceOf(key[t], capacity)
         /\ bucketLock[t] = bucketIdx[t]

\* C13 witness: a put of the negative key is about to link its entry in front
\* of the entry of key 1, in the bucket the two keys share.
PlacementWitness ==
  \E t \in Threads :
    /\ pc[t] = "p118" /\ key[t] = 0 - 1
    /\ bucketIdx[t] = 1 /\ table[1] # NULL /\ heap[table[1]].key = 1

\* C14 as stated: a thread that holds the global lock in acquireBucketAccess
\* finds its bucket lock free, so that it never holds the global lock for as
\* long as another thread's work on a chain lasts.
GlobalLockTransient ==
  \A t \in Threads :
    (pc[t] = "a43" /\ globalLock = t) => BucketLockFree(bucketIdx[t])

\* C14 amended: the global lock is held only inside acquireBucketAccess and at
\* put's load factor check, never by a thread that is between
\* acquireBucketAccess and releaseBucketAccess; a thread that waits for its
\* bucket lock holds the global lock while it waits.
GlobalLockOutsideChains ==
  /\ \A t \in Threads : Between(t) => globalLock # t
  /\ \A t \in Threads :
       globalLock = t <=> pc[t] \in {"a43", "a48", "a49", "a52", "p131", "p135"}

\* C14 witness: a get and a put are inside the critical sections of two
\* buckets at the same time and the global lock is free.
TwoBucketsWitness ==
  /\ pc[1] = "g74" /\ pc[2] = "p102"
  /\ bucketIdx[1] # bucketIdx[2] /\ globalLock = NoThread

\* Thread t holds none of the map's locks.
HoldsNoLock(t) ==
  /\ globalLock # t /\ numThreadsLock # t /\ sizeLock # t
  /\ \A b \in Buckets : bucketLocks[b] # t

\* Thread t has added itself to numThreads and not yet taken itself off.
Registered(t) == pc[t] \in {"a52", "g74", "p102", "p118", "d149", "r56", "r59", "r60"}

\* The calls of threads 1..n that have gone through line 46, in runs where
\* every thread starts with MaxOps calls to make.
RECURSIVE CallsPastAcquire(_)
CallsPastAcquire(n) ==
  IF n = 0 THEN 0
  ELSE (MaxOps - budget[n]) + (IF pc[n] \in {"idle", "a42", "a43"} THEN 0 ELSE 1)
         + CallsPastAcquire(n - 1)

\* C15: every call goes through acquireBucketAccess once and through
\* releaseBucketAccess once, whatever path it returns on: numOps counts the
\* calls that have acquired, numThreads the calls that have acquired and not
\* released; after its release and when it returns a thread holds no bucket
\* lock, when it returns it holds no lock at all; and when no call is in
\* progress numThreads is 0 and every lock is free.
ReleaseOnEveryPath ==
  /\ numOps = CallsPastAcquire(NumThreads)
  /\ numThreads = Cardinality({t \in Threads : Registered(t)})
  /\ \A t \in Threads :
       pc[t] \in {"r59", "r60", "s244", "s245", "s245w", "p130", "p131", "p135", "ret", "idle"}
         => \A b \in Buckets : bucketLocks[b] # t
  /\ \A t \in Threads : pc[t] \in {"ret", "idle"} => HoldsNoLock(t)
  /\ (\A t \in Threads : pc[t] = "idle") =>
       /\ numThreads = 0
       /\ globalLock = NoThread /\ numThreadsLock = NoThread /\ sizeLock = NoThread
       /\ \A b \in Buckets : bucketLocks[b] = NoThread

\* C15 witness: a del that removed an entry and a get that found nothing are
\* both about to return from their second calls.
ReleaseWitness ==
  /\ pc[1] = "ret" /\ op[1] = "del" /\ temp[1] # INT_MAX
  /\ pc[2] = "ret" /\ op[2] = "get" /\ temp[2] = INT_MAX
  /\ numOps = 4

\* C16: with fair scheduling and fair hand-off of the locks every call that
\* was started returns, and a thread at pthread_mutex_lock of the global
\* lock, of a bucket lock, of numThreadsLock or of sizeLock gets past it.
Termination ==
  \A t \in Threads :
    /\ (pc[t] # "idle") ~> (pc[t] = "idle")
    /\ (pc[t] \in {"a42", "a43", "a48", "r59", "s244", "p130"})
         ~> (pc[t] \in {"g74", "p102", "d149", "r60", "s245", "p131"})

\* C16 witness: a put waits for the global lock before its load factor check
\* while the other thread, inside acquireBucketAccess, holds it.
TerminationWitness ==
  pc[1] = "p130" /\ globalLock = 2 /\ pc[2] = "a49"

\* C17: no step of a get call, from the call to the return, changes the
\* table, an entry (key, value, next), size or capacity; of the counters it
\* adds one to numOps at line 46 and nowhere else, one to numThreads at line 49
\* and takes that one off again at line 60.
GetReadOnly ==
  [][\A t \in Threads :
       (pc'[t] # pc[t] /\ (op[t] = "get" \/ op'[t] = "get")) =>
         /\ table' = table /\ heap' = heap
         /\ size' = size /\ capacity' = capacity
         /\ numOps' = numOps + (IF pc[t] = "a43" THEN 1 ELSE 0)
         /\ numThreads' = numThreads + (IF pc[t] = "a49" THEN 1
                                        ELSE IF pc[t] = "r60" THEN 0 - 1 ELSE 0)]_vars

\* C17 witness: a get that found its key returns while the other thread is
\* in the middle of a put.
GetFoundWitness ==
  /\ pc[1] = "ret" /\ op[1] = "get" /\ temp[1] \in Values
  /\ op[2] = "put" /\ pc[2] = "p118"

\* C18: in every reachable state in which no put and no del is in progress,
\* gets being allowed, size is the number of entries linked in the chains.
QuiescentSize ==
  (\A t \in Threads : op[t] \notin {"put", "del"}) => size = EntryCount

\* C18 witness: two entries were put, the last call of thread 2 has returned
\* and thread 1 is inside a get.
QuiescentSizeWitness ==
  /\ pc[1] = "g74" /\ budget[1] = 1
  /\ pc[2] = "idle" /\ budget[2] = 0
  /\ size = 2

\* C19: in every reachable state size is at least 0, and so is the size from
\* which a put computes its load factor.
SizeNonNegative ==
  /\ size >= 0
  /\ \A t \in Threads : loadFactor[t][1] >= 0

====
